---- MODULE Spec2Model ----
(***************************************************************************)
(* VOLTNET SDK transport core: VoltnetClient (request pipeline with the    *)
(* retry interceptor, the realtime WebSocket channel and the inherited     *)
(* eventemitter3 listener registry).                                       *)
(***************************************************************************)
EXTENDS Integers, Sequences, FiniteSets, TLC

(***************************************************************************)
(* Bounds of the model.                                                    *)
(***************************************************************************)
\* WebSocket objects constructed during one behaviour
MaxSockets == 2
\* calls of on() during one behaviour
MaxRegs == 2
\* calls of disconnect() during one behaviour
MaxDisconnects == 2
\* largest value configured for network.retries
MaxRetriesCfg == 2
\* largest maxRetries handed to retryWithBackoff
MaxRetriesArg == 3
\* the clock of the debounce model stops at this time, in ms
MaxTime == 4
\* calls of a debounced function during one behaviour
MaxDebCalls == 3

(***************************************************************************)
(* Values.                                                                 *)
(***************************************************************************)
\* the message types handleWebSocketMessage routes
RecognizedTypes ==
  {"measurement", "transaction", "settlement", "offer", "price-update", "balance-update"}

\* the event names of VoltnetEvents
Kinds == RecognizedTypes \cup {"error"}

\* the kinds the modelled subscribers use
SubKinds == {"offer", "error"}

\* listener functions; hx is a callback that throws when invoked
Handles == {"h1", "h2", "hx"}

Throws(fn) == fn = "hx"

\* payload values carried by frames and dispatches
Payloads == {"p1", "p2"}

\* the argument onerror passes to emit: new Error('WebSocket connection error')
WsErrorArg == "Error(WebSocket connection error)"

\* JS undefined, for a field a decoded frame does not have
Undefined == "undefined"

\* raw text of inbound frames: text that is not JSON, the JSON text null, and
\* JSON objects with or without a type field
FrameTypes == RecognizedTypes \cup {"error", "ping", Undefined}

Frames ==
  {[shape |-> "garbage", type |-> Undefined, payload |-> Undefined],
   [shape |-> "null", type |-> Undefined, payload |-> Undefined]}
  \cup {[shape |-> "object", type |-> t, payload |-> p] : t \in FrameTypes, p \in Payloads}

NoFrame == [shape |-> "none", type |-> Undefined, payload |-> Undefined]

VARIABLES
  enableRealtime,  \* config.enableRealtime
  wsCtorThrows,    \* whether new WebSocket(url) throws in this environment
  sockets,         \* the WebSocket objects constructed so far, by their readyState
  wsConnection,    \* this.wsConnection: an index of sockets, or 0 for undefined
  timers,          \* pending setTimeout(() => this.initializeWebSocket(), 5000)
  listeners,       \* the emitter's _events: kind -> sequence of registrations
  nextId,          \* identity of the next listener object created by on()
  disconnects,     \* calls of disconnect() so far
  discMark,        \* nextId at the latest disconnect()
  last,            \* what the latest step did
  networkRetries,  \* config.network?.retries, Omitted when not given
  calls,           \* the logical HTTP calls: phase, attempts made, config._retry, the
                   \* backoff waits, the statuses failed with, the latest failure and
                   \* what the call settled with
  market,          \* P2PMarket: per callback, the latest of subscribeToOffers and
                   \* unsubscribeFromOffers called with it
  rwb,             \* one run of utils.retryWithBackoff
  co2,             \* one call of utils.calculateCO2
  vm,              \* one call of utils.validateMeasurement
  deb              \* one debounced function made by utils.debounce

clientVars == <<enableRealtime, wsCtorThrows, sockets, wsConnection, timers,
                listeners, nextId, disconnects, discMark, last>>
utilVars == <<market, rwb, co2, vm, deb>>
vars == <<enableRealtime, wsCtorThrows, sockets, wsConnection, timers,
          listeners, nextId, disconnects, discMark, last, networkRetries, calls,
          market, rwb, co2, vm, deb>>

(***************************************************************************)
(* The modules around the client, before anything is called on them.       *)
(***************************************************************************)
\* the callbacks handed to P2PMarket.subscribeToOffers
MarketCallbacks == {"h1", "h2"}

\* no callback has been subscribed through the market yet, no closure made
MarketIdle == [state |-> [cb \in MarketCallbacks |-> "never"], closures |-> {}]

\* retryWithBackoff not called; lastError 0 is the unassigned let lastError
RwbIdle ==
  [pc |-> "idle", maxRetries |-> 0, initialDelay |-> 0, i |-> 0, invoked |-> 0,
   delays |-> <<>>, lastError |-> 0, settled |-> [kind |-> "none", value |-> 0]]

\* calculateCO2 not called
Co2Idle == [pc |-> "idle", energyKwh |-> 0, source |-> "", nan |-> FALSE, milli |-> 0]

\* validateMeasurement not called
VmIdle == [pc |-> "idle"]

\* debounce not called
DebIdle ==
  [pc |-> "idle", delay |-> 0, now |-> 0, timeoutId |-> 0, nextTimer |-> 1,
   timers |-> {}, calls |-> <<>>, invocations |-> <<>>]

IdleUtils ==
  /\ market = MarketIdle
  /\ rwb = RwbIdle
  /\ co2 = Co2Idle
  /\ vm = VmIdle
  /\ deb = DebIdle

(***************************************************************************)
(* eventemitter3, the base class of VoltnetClient, as the library          *)
(* implements it: on appends a new listener object, removeListener keeps   *)
(* the listeners whose fn differs, emit calls the listeners in a loop with *)
(* no try/catch, and an 'error' event without listeners does not throw.    *)
(***************************************************************************)
NoListeners == [k \in Kinds |-> <<>>]

\* on(event, fn): a new listener object is appended, with no uniqueness check
addListener(ls, event, fn, id) ==
  [ls EXCEPT ![event] = Append(@, [fn |-> fn, id |-> id])]

\* off(event, fn) dropping every listener of the event
removeListenerClearsEvent(ls, event, fn) ==
  [ls EXCEPT ![event] = <<>>]

\* off(event, fn): keeps the listeners whose fn differs
removeListener(ls, event, fn) ==
  [ls EXCEPT ![event] = SelectSeq(@, LAMBDA r : r.fn # fn)]

removeAllListeners(ls) == NoListeners

RECURSIVE CallListeners(_, _, _)
\* the loop of emit over the listener array: a throwing listener ends it
CallListeners(regs, arg, done) ==
  IF regs = <<>> THEN [invoked |-> done, raised |-> FALSE]
  ELSE LET r == Head(regs)
           now == Append(done, [fn |-> r.fn, id |-> r.id, arg |-> arg])
       IN IF Throws(r.fn) THEN [invoked |-> now, raised |-> TRUE]
          ELSE CallListeners(Tail(regs), arg, now)

\* emit(event, arg): calls the listeners of event in order, synchronously
emit(ls, event, arg) == CallListeners(ls[event], arg, <<>>)

NoEmit == [invoked |-> <<>>, raised |-> FALSE]

(***************************************************************************)
(* VoltnetClient: the realtime channel.                                    *)
(***************************************************************************)
\* initializeWebSocket: new WebSocket(...) inside try/catch
initializeWebSocket(socks, conn) ==
  IF wsCtorThrows THEN [sockets |-> socks, wsConnection |-> conn]
  ELSE [sockets |-> Append(socks, "connecting"), wsConnection |-> Len(socks) + 1]

\* JSON.parse(event.data)
JSONparse(raw) ==
  CASE raw.shape = "garbage" -> [ok |-> FALSE, isNull |-> FALSE, type |-> Undefined, payload |-> Undefined]
    [] raw.shape = "null" -> [ok |-> TRUE, isNull |-> TRUE, type |-> Undefined, payload |-> Undefined]
    [] OTHER -> [ok |-> TRUE, isNull |-> FALSE, type |-> raw.type, payload |-> raw.payload]

\* handleWebSocketMessage whose default case reports the frame to 'error'
handleWebSocketMessageDefaultError(ls, data) ==
  IF data.isNull THEN [kind |-> Undefined] @@ NoEmit
  ELSE IF data.type \in RecognizedTypes
       THEN [kind |-> data.type] @@ emit(ls, data.type, data.payload)
       ELSE [kind |-> "error"] @@ emit(ls, "error", data.payload)

\* handleWebSocketMessage whose 'price-update' case emits 'offer'
handleWebSocketMessageWrongCase(ls, data) ==
  IF data.isNull THEN [kind |-> Undefined] @@ NoEmit
  ELSE IF data.type \in RecognizedTypes
       THEN LET k == IF data.type = "price-update" THEN "offer" ELSE data.type
            IN [kind |-> k] @@ emit(ls, k, data.payload)
       ELSE [kind |-> Undefined] @@ NoEmit

\* handleWebSocketMessage(data): the switch over data.type; destructuring null
\* throws before the switch, which onmessage catches
handleWebSocketMessage(ls, data) ==
  IF data.isNull THEN [kind |-> Undefined] @@ NoEmit
  ELSE IF data.type \in RecognizedTypes
       THEN [kind |-> data.type] @@ emit(ls, data.type, data.payload)
       ELSE [kind |-> Undefined] @@ NoEmit

\* wsConnection.onmessage: parse and handle under one try/catch
onmessage(ls, raw) ==
  LET data == JSONparse(raw)
  IN IF ~data.ok THEN [kind |-> Undefined, invoked |-> <<>>, raised |-> FALSE, escaped |-> FALSE]
     ELSE LET r == handleWebSocketMessage(ls, data)
          IN [kind |-> r.kind, invoked |-> r.invoked, raised |-> r.raised, escaped |-> FALSE]

\* WebSocket.close(): acts on a connecting or open socket only
CloseSocket(st) == IF st \in {"connecting", "open"} THEN "closing" ELSE st

\* the delay of the reconnect timer, in ms
ReconnectDelay == 5000

\* onclose only logging, with no reconnect scheduled
oncloseNoReconnect(ts) == ts

\* onclose scheduling the reconnect twice
oncloseSchedulesTwice(ts) == Append(Append(ts, ReconnectDelay), ReconnectDelay)

\* the onclose handler: setTimeout(() => this.initializeWebSocket(), 5000)
onclose(ts) == Append(ts, ReconnectDelay)

Step(op, kind, frame, r, escaped) ==
  [op |-> op, kind |-> kind, frame |-> frame, invoked |-> r.invoked,
   raised |-> r.raised, escaped |-> escaped]

\* a constructor that opens the channel whatever enableRealtime says
InitClientAlwaysConnects ==
  /\ enableRealtime \in BOOLEAN
  /\ wsCtorThrows \in BOOLEAN
  /\ LET c == initializeWebSocket(<<>>, 0)
     IN /\ sockets = c.sockets
        /\ wsConnection = c.wsConnection
  /\ timers = <<>>
  /\ listeners = NoListeners
  /\ nextId = 1
  /\ disconnects = 0
  /\ discMark = 0
  /\ last = Step("constructor", Undefined, NoFrame, NoEmit, FALSE)

\* the constructor: the channel and the registry
InitClient ==
  /\ enableRealtime \in BOOLEAN
  /\ wsCtorThrows \in BOOLEAN
  /\ LET c == IF enableRealtime THEN initializeWebSocket(<<>>, 0)
              ELSE [sockets |-> <<>>, wsConnection |-> 0]
     IN /\ sockets = c.sockets
        /\ wsConnection = c.wsConnection
  /\ timers = <<>>
  /\ listeners = NoListeners
  /\ nextId = 1
  /\ disconnects = 0
  /\ discMark = 0
  /\ last = Step("constructor", Undefined, NoFrame, NoEmit, FALSE)

(***************************************************************************)
(* VoltnetClient: the request pipeline and its retry interceptor.  Every   *)
(* call gets a configuration object of its own from axios, and the retry   *)
(* this.httpClient(config) carries config._retry into the next attempt.    *)
(***************************************************************************)
\* a field that is undefined: network.retries not given, config._retry not set
Omitted == -1

\* an attempt that ends without any response (network error, timeout)
NoResponse == 0

\* statuses the backend answers with; axios rejects the ones outside 2xx
OkStatus == 200
FailStatuses == {404, 429, 500, 503}

\* the failures one attempt can end with: error.response.status or no response,
\* and whether the error carries the request configuration
Failures ==
  {[status |-> st, hasConfig |-> TRUE] : st \in FailStatuses \cup {NoResponse}}
  \cup {[status |-> NoResponse, hasConfig |-> FALSE]}

\* the logical calls in flight side by side
Calls == {"c1", "c2"}

RetriesCfg == {Omitted} \cup (0..MaxRetriesCfg)

RECURSIVE Pow2(_)
\* Math.pow(2, n)
Pow2(n) == IF n = 0 THEN 1 ELSE 2 * Pow2(n - 1)

\* const retries = this.config.network?.retries || 3
Retries(cfg) == IF cfg = Omitted \/ cfg = 0 THEN 3 ELSE cfg

\* shouldRetry treating every error status as retryable
shouldRetryFrom400(error) ==
  IF error.status = NoResponse THEN TRUE
  ELSE error.status >= 400

\* shouldRetry(error)
shouldRetry(error) ==
  IF error.status = NoResponse THEN TRUE
  ELSE error.status >= 500 \/ error.status = 429

\* the rejection handler asking shouldRetry for the first retry only
setupRetryLogicRetriesOnceStarted(retries, retry, error) ==
  IF ~error.hasConfig
  THEN [do |-> "throw", retry |-> retry, delay |-> 0]
  ELSE LET r0 == IF retry = Omitted \/ retry = 0 THEN 0 ELSE retry
       IN IF r0 < retries /\ (shouldRetry(error) \/ r0 > 0)
          THEN [do |-> "retry", retry |-> r0 + 1, delay |-> Pow2(r0 + 1) * 1000]
          ELSE [do |-> "reject", retry |-> r0, delay |-> 0]

\* the rejection handler computing the delay before it increments config._retry
setupRetryLogicDelayBeforeIncrement(retries, retry, error) ==
  IF ~error.hasConfig
  THEN [do |-> "throw", retry |-> retry, delay |-> 0]
  ELSE LET r0 == IF retry = Omitted \/ retry = 0 THEN 0 ELSE retry
       IN IF r0 < retries /\ shouldRetry(error)
          THEN [do |-> "retry", retry |-> r0 + 1, delay |-> Pow2(r0) * 1000]
          ELSE [do |-> "reject", retry |-> r0, delay |-> 0]

\* the rejection handler of the response interceptor, for an error whose
\* config._retry is retry: what it does next
setupRetryLogic(retries, retry, error) ==
  IF ~error.hasConfig
  THEN [do |-> "throw", retry |-> retry, delay |-> 0]
  ELSE LET r0 == IF retry = Omitted \/ retry = 0 THEN 0 ELSE retry
       IN IF r0 < retries /\ shouldRetry(error)
          THEN [do |-> "retry", retry |-> r0 + 1, delay |-> Pow2(r0 + 1) * 1000]
          ELSE [do |-> "reject", retry |-> r0, delay |-> 0]

NoOutcome == [kind |-> "none", attempt |-> 0, status |-> 0]

IdleCall ==
  [phase |-> "idle", attempts |-> 0, retry |-> Omitted, waits |-> <<>>,
   seen |-> {}, failure |-> NoOutcome, settled |-> NoOutcome]

InitHttp ==
  /\ networkRetries \in RetriesCfg
  /\ calls = [c \in Calls |-> IdleCall]

\* a resource module issues a request through the http client
IssueRequest(c) ==
  /\ calls[c].phase = "idle"
  /\ calls' = [calls EXCEPT ![c].phase = "inflight", ![c].attempts = 1]
  /\ UNCHANGED <<clientVars, networkRetries, utilVars>>

\* an attempt is answered with a 2xx status: response => response
AttemptSucceeds(c) ==
  /\ calls[c].phase = "inflight"
  /\ calls' = [calls EXCEPT ![c].phase = "resolved",
                            ![c].settled = [kind |-> "response", attempt |-> calls[c].attempts,
                                            status |-> OkStatus]]
  /\ UNCHANGED <<clientVars, networkRetries, utilVars>>

\* an attempt fails: the rejection handler runs
\* an attempt fails, with the retry counter kept on the client and not on the
\* call's configuration object
AttemptFailsSharedCounter(c, error) ==
  /\ calls[c].phase = "inflight"
  /\ LET this == [kind |-> "error", attempt |-> calls[c].attempts, status |-> error.status]
         shared == CHOOSE m \in {calls[d].retry : d \in Calls} :
                     \A d \in Calls : calls[d].retry <= m
         r == setupRetryLogic(Retries(networkRetries), shared, error)
         now == [d \in Calls |->
                   IF d = c
                   THEN [calls[d] EXCEPT !.seen = @ \cup {error.status}, !.failure = this,
                                         !.retry = r.retry]
                   ELSE [calls[d] EXCEPT !.retry = r.retry]]
     IN calls' =
          CASE r.do = "retry" ->
                 [now EXCEPT ![c].phase = "backoff", ![c].waits = Append(@, r.delay)]
            [] r.do = "reject" ->
                 [now EXCEPT ![c].phase = "rejected", ![c].settled = this]
            [] OTHER ->
                 [now EXCEPT ![c].phase = "rejected",
                             ![c].settled = [kind |-> "TypeError", attempt |-> calls[c].attempts,
                                               status |-> 0]]
  /\ UNCHANGED <<clientVars, networkRetries, utilVars>>

AttemptFails(c, error) ==
  /\ calls[c].phase = "inflight"
  /\ LET this == [kind |-> "error", attempt |-> calls[c].attempts, status |-> error.status]
         r == setupRetryLogic(Retries(networkRetries), calls[c].retry, error)
         now == [calls EXCEPT ![c].seen = @ \cup {error.status}, ![c].failure = this]
     IN calls' =
          CASE r.do = "retry" ->
                 [now EXCEPT ![c].phase = "backoff", ![c].retry = r.retry,
                             ![c].waits = Append(@, r.delay)]
            [] r.do = "reject" ->
                 [now EXCEPT ![c].phase = "rejected", ![c].retry = r.retry,
                             ![c].settled = this]
            [] OTHER ->
                 [now EXCEPT ![c].phase = "rejected",
                             ![c].settled = [kind |-> "TypeError", attempt |-> calls[c].attempts,
                                               status |-> 0]]
  /\ UNCHANGED <<clientVars, networkRetries, utilVars>>

\* the backoff timer fires: return this.httpClient(config)
BackoffElapses(c) ==
  /\ calls[c].phase = "backoff"
  /\ calls' = [calls EXCEPT ![c].phase = "inflight", ![c].attempts = @ + 1]
  /\ UNCHANGED <<clientVars, networkRetries, utilVars>>

NextHttp ==
  \/ \E c \in Calls : IssueRequest(c)
  \/ \E c \in Calls : AttemptSucceeds(c)
  \/ \E c \in Calls, error \in Failures : AttemptFails(c, error)
  \/ \E c \in Calls : BackoffElapses(c)

\* a client whose realtime channel is off and on which only requests are issued
InitHttpOnly ==
  /\ InitClient
  /\ ~enableRealtime
  /\ ~wsCtorThrows
  /\ InitHttp
  /\ IdleUtils

SpecHttp == InitHttpOnly /\ [][NextHttp]_vars

(***************************************************************************)
(* The client with no request in flight: the channel and the registry.     *)
(***************************************************************************)
Init ==
  /\ InitClient
  /\ networkRetries = Omitted
  /\ calls = [c \in Calls |-> IdleCall]
  /\ IdleUtils

\* the handshake succeeds: onopen
OnOpen(s) ==
  /\ sockets[s] = "connecting"
  /\ sockets' = [sockets EXCEPT ![s] = "open"]
  /\ last' = Step("onopen", Undefined, NoFrame, NoEmit, FALSE)
  /\ UNCHANGED <<enableRealtime, wsCtorThrows, wsConnection, timers, listeners,
                 nextId, disconnects, discMark,
                 networkRetries, calls, utilVars>>

\* onmessage without the try/catch: an exception of a handle reaches the
\* socket, which fails the connection
OnMessageUncaught(s, raw) ==
  /\ sockets[s] \in {"open", "closing"}
  /\ LET r == onmessage(listeners, raw)
     IN /\ last' = Step("onmessage", r.kind, raw, r, r.raised)
        /\ sockets' = IF r.raised THEN [sockets EXCEPT ![s] = "failed"] ELSE sockets
  /\ UNCHANGED <<enableRealtime, wsCtorThrows, wsConnection, timers, listeners,
                 nextId, disconnects, discMark,
                 networkRetries, calls, utilVars>>

\* a frame arrives: onmessage
OnMessage(s, raw) ==
  /\ sockets[s] \in {"open", "closing"}
  /\ LET r == onmessage(listeners, raw)
     IN last' = Step("onmessage", r.kind, raw, r, r.escaped)
  /\ UNCHANGED <<enableRealtime, wsCtorThrows, sockets, wsConnection, timers,
                 listeners, nextId, disconnects, discMark,
                 networkRetries, calls, utilVars>>

\* the connection fails: onerror, with the close event still to come
OnError(s) ==
  /\ sockets[s] \in {"connecting", "open", "closing"}
  /\ sockets' = [sockets EXCEPT ![s] = "failed"]
  /\ LET r == emit(listeners, "error", WsErrorArg)
     IN last' = Step("onerror", "error", NoFrame, r, r.raised)
  /\ UNCHANGED <<enableRealtime, wsCtorThrows, wsConnection, timers, listeners,
                 nextId, disconnects, discMark,
                 networkRetries, calls, utilVars>>

\* onclose that also drops the registrations
OnCloseClearsRegistry(s) ==
  /\ sockets[s] \in {"open", "closing", "failed"}
  /\ sockets' = [sockets EXCEPT ![s] = "closed"]
  /\ timers' = onclose(timers)
  /\ listeners' = removeAllListeners(listeners)
  /\ last' = Step("onclose", Undefined, NoFrame, NoEmit, FALSE)
  /\ UNCHANGED <<enableRealtime, wsCtorThrows, wsConnection, nextId,
                 disconnects, discMark,
                 networkRetries, calls, utilVars>>

\* the connection is closed: onclose
OnClose(s) ==
  /\ sockets[s] \in {"open", "closing", "failed"}
  /\ sockets' = [sockets EXCEPT ![s] = "closed"]
  /\ timers' = onclose(timers)
  /\ last' = Step("onclose", Undefined, NoFrame, NoEmit, FALSE)
  /\ UNCHANGED <<enableRealtime, wsCtorThrows, wsConnection, listeners, nextId,
                 disconnects, discMark,
                 networkRetries, calls, utilVars>>

\* a reconnect timer fires
ReconnectTimer ==
  /\ timers # <<>>
  /\ Len(sockets) < MaxSockets
  /\ timers' = Tail(timers)
  /\ LET c == initializeWebSocket(sockets, wsConnection)
     IN /\ sockets' = c.sockets
        /\ wsConnection' = c.wsConnection
  /\ last' = Step("timer", Undefined, NoFrame, NoEmit, FALSE)
  /\ UNCHANGED <<enableRealtime, wsCtorThrows, listeners, nextId, disconnects, discMark,
                 networkRetries, calls, utilVars>>

\* disconnect() without the call of removeAllListeners
disconnectKeepsListeners(socks, conn, ls) ==
  [sockets |-> IF conn # 0 THEN [socks EXCEPT ![conn] = CloseSocket(@)] ELSE socks,
   wsConnection |-> 0,
   listeners |-> ls]

\* disconnect() that closes the socket but keeps this.wsConnection
disconnectKeepsConnection(socks, conn, ls) ==
  [sockets |-> IF conn # 0 THEN [socks EXCEPT ![conn] = CloseSocket(@)] ELSE socks,
   wsConnection |-> conn,
   listeners |-> removeAllListeners(ls)]

\* disconnect()
disconnect(socks, conn, ls) ==
  [sockets |-> IF conn # 0 THEN [socks EXCEPT ![conn] = CloseSocket(@)] ELSE socks,
   wsConnection |-> 0,
   listeners |-> removeAllListeners(ls)]

Disconnect ==
  /\ disconnects < MaxDisconnects
  /\ LET d == disconnect(sockets, wsConnection, listeners)
     IN /\ sockets' = d.sockets
        /\ wsConnection' = d.wsConnection
        /\ listeners' = d.listeners
  /\ disconnects' = disconnects + 1
  /\ discMark' = nextId
  /\ last' = Step("disconnect", Undefined, NoFrame, NoEmit, FALSE)
  /\ UNCHANGED <<enableRealtime, wsCtorThrows, timers, nextId,
                 networkRetries, calls, utilVars>>

\* client.on(kind, fn)
On(k, fn) ==
  /\ nextId <= MaxRegs
  /\ listeners' = addListener(listeners, k, fn, nextId)
  /\ nextId' = nextId + 1
  /\ last' = Step("on", k, NoFrame, NoEmit, FALSE)
  /\ UNCHANGED <<enableRealtime, wsCtorThrows, sockets, wsConnection, timers,
                 disconnects, discMark,
                 networkRetries, calls, utilVars>>

\* client.off(kind, fn)
Off(k, fn) ==
  /\ listeners' = removeListener(listeners, k, fn)
  /\ last' = Step("off", k, NoFrame, NoEmit, FALSE)
  /\ UNCHANGED <<enableRealtime, wsCtorThrows, sockets, wsConnection, timers,
                 nextId, disconnects, discMark,
                 networkRetries, calls, utilVars>>

\* client.emit(kind, payload)
Emit(k, p) ==
  /\ LET r == emit(listeners, k, p)
     IN last' = Step("emit", k, NoFrame, r, r.raised)
  /\ UNCHANGED <<enableRealtime, wsCtorThrows, sockets, wsConnection, timers,
                 listeners, nextId, disconnects, discMark,
                 networkRetries, calls, utilVars>>

Next ==
  \/ \E s \in 1..Len(sockets) : OnOpen(s)
  \/ \E s \in 1..Len(sockets), raw \in Frames : OnMessage(s, raw)
  \/ \E s \in 1..Len(sockets) : OnError(s)
  \/ \E s \in 1..Len(sockets) : OnClose(s)
  \/ ReconnectTimer
  \/ Disconnect
  \/ \E k \in SubKinds, fn \in Handles : On(k, fn)
  \/ \E k \in SubKinds, fn \in Handles : Off(k, fn)
  \/ \E k \in SubKinds, p \in Payloads : Emit(k, p)

Spec == Init /\ [][Next]_vars

(***************************************************************************)
(* P2PMarket: subscribeToOffers registers a closure of its own around the  *)
(* caller's callback, unsubscribeFromOffers hands the caller's callback to *)
(* client.off.                                                             *)
(***************************************************************************)
\* offers carried by 'offer' frames
Offers == [source : {"solar", "grid"}, pricePerKwh : {1, 2}]

\* the filters argument: not given, a source, a maxPrice (0 for a missing field)
OfferFilters ==
  {[given |-> FALSE, source |-> Undefined, maxPrice |-> 0],
   [given |-> TRUE, source |-> "solar", maxPrice |-> 0],
   [given |-> TRUE, source |-> Undefined, maxPrice |-> 1]}

\* the function object created by one call of subscribeToOffers
wrappedCallbackName(id) == "wrappedCallback" \o ToString(id)

\* the body of wrappedCallback: whether it goes on to callback(offer)
wrappedCallback(filters, offer) ==
  IF filters.given
  THEN IF filters.source # Undefined /\ offer.source # filters.source THEN FALSE
       ELSE IF filters.maxPrice # 0 /\ offer.pricePerKwh > filters.maxPrice THEN FALSE
       ELSE TRUE
  ELSE TRUE

\* the callbacks the invoked listeners have called
CallbacksInvoked(invoked, closures) ==
  {cl.callback : cl \in {x \in closures :
     \E i \in 1..Len(invoked) :
       invoked[i].fn = x.name /\ wrappedCallback(x.filters, invoked[i].arg)}}

InitMarket ==
  /\ InitClient
  /\ enableRealtime
  /\ ~wsCtorThrows
  /\ networkRetries = Omitted
  /\ calls = [c \in Calls |-> IdleCall]
  /\ IdleUtils

\* market.subscribeToOffers(callback, filters)
subscribeToOffers(callback, filters) ==
  /\ nextId <= MaxRegs
  /\ listeners' = addListener(listeners, "offer", wrappedCallbackName(nextId), nextId)
  /\ nextId' = nextId + 1
  /\ market' = [state |-> [market.state EXCEPT ![callback] = "subscribed"],
                closures |-> market.closures \cup
                  {[name |-> wrappedCallbackName(nextId), callback |-> callback,
                    filters |-> filters]}]
  /\ last' = Step("subscribeToOffers", "offer", NoFrame, NoEmit, FALSE)
  /\ UNCHANGED <<enableRealtime, wsCtorThrows, sockets, wsConnection, timers,
                 disconnects, discMark, networkRetries, calls, rwb, co2, vm, deb>>

\* market.unsubscribeFromOffers(callback)
unsubscribeFromOffers(callback) ==
  /\ market.state[callback] = "subscribed"
  /\ listeners' = removeListener(listeners, "offer", callback)
  /\ market' = [market EXCEPT !.state[callback] = "unsubscribed"]
  /\ last' = Step("unsubscribeFromOffers", "offer", NoFrame, NoEmit, FALSE)
  /\ UNCHANGED <<enableRealtime, wsCtorThrows, sockets, wsConnection, timers,
                 nextId, disconnects, discMark, networkRetries, calls, rwb, co2, vm, deb>>

\* a frame {type: 'offer', payload: offer} arrives
OnOfferFrame(s, offer) ==
  /\ sockets[s] \in {"open", "closing"}
  /\ LET raw == [shape |-> "object", type |-> "offer", payload |-> offer]
         r == onmessage(listeners, raw)
     IN last' = Step("onmessage", r.kind, raw, r, r.escaped)
  /\ UNCHANGED <<enableRealtime, wsCtorThrows, sockets, wsConnection, timers,
                 listeners, nextId, disconnects, discMark,
                 networkRetries, calls, utilVars>>

NextMarket ==
  \/ \E s \in 1..Len(sockets) : OnOpen(s)
  \/ \E cb \in MarketCallbacks, f \in OfferFilters : subscribeToOffers(cb, f)
  \/ \E cb \in MarketCallbacks : unsubscribeFromOffers(cb)
  \/ \E s \in 1..Len(sockets), offer \in Offers : OnOfferFrame(s, offer)

SpecMarket == InitMarket /\ [][NextMarket]_vars

(***************************************************************************)
(* utils.retryWithBackoff(fn, maxRetries = 3, initialDelay = 1000).  The   *)
(* n-th invocation of fn resolves with the value n or rejects with the     *)
(* error n; lastError 0 is undefined.                                      *)
(***************************************************************************)
\* a client on which nothing runs, next to the utility under study
IdleClient ==
  /\ InitClient
  /\ ~enableRealtime
  /\ ~wsCtorThrows
  /\ networkRetries = Omitted
  /\ calls = [c \in Calls |-> IdleCall]

\* the maxRetries argument: a number, or left out for the default of 3
MaxRetriesArgs == {Omitted} \cup (0..MaxRetriesArg)

\* the initialDelay argument in ms: a number, or left out for the default of 1000
InitialDelayArgs == {Omitted, 0, 1, 500}

\* the call retryWithBackoff(fn, maxRetries, initialDelay), about to test the loop
retryWithBackoff(maxRetries, initialDelay) ==
  [pc |-> "loop",
   maxRetries |-> IF maxRetries = Omitted THEN 3 ELSE maxRetries,
   initialDelay |-> IF initialDelay = Omitted THEN 1000 ELSE initialDelay,
   i |-> 0, invoked |-> 0, delays |-> <<>>, lastError |-> 0,
   settled |-> [kind |-> "none", value |-> 0]]

InitRwb ==
  /\ IdleClient
  /\ market = MarketIdle
  /\ \E m \in MaxRetriesArgs, d \in InitialDelayArgs : rwb = retryWithBackoff(m, d)
  /\ co2 = Co2Idle
  /\ vm = VmIdle
  /\ deb = DebIdle

\* i < maxRetries holds: try { return await fn() }
RwbInvoke ==
  /\ rwb.pc = "loop"
  /\ rwb.i < rwb.maxRetries
  /\ rwb' = [rwb EXCEPT !.pc = "awaiting", !.invoked = @ + 1]
  /\ UNCHANGED <<clientVars, networkRetries, calls, market, co2, vm, deb>>

\* i < maxRetries fails: throw lastError!
RwbThrowLast ==
  /\ rwb.pc = "loop"
  /\ rwb.i >= rwb.maxRetries
  /\ rwb' = [rwb EXCEPT !.pc = "rejected",
                        !.settled = [kind |-> "error", value |-> rwb.lastError]]
  /\ UNCHANGED <<clientVars, networkRetries, calls, market, co2, vm, deb>>

\* fn() resolves: its value is returned
RwbFnResolves ==
  /\ rwb.pc = "awaiting"
  /\ rwb' = [rwb EXCEPT !.pc = "resolved",
                        !.settled = [kind |-> "value", value |-> rwb.invoked]]
  /\ UNCHANGED <<clientVars, networkRetries, calls, market, co2, vm, deb>>

\* fn() rejects: the catch block
RwbFnRejects ==
  /\ rwb.pc = "awaiting"
  /\ rwb' = IF rwb.i < rwb.maxRetries - 1
            THEN [rwb EXCEPT !.pc = "sleeping", !.lastError = rwb.invoked,
                             !.delays = Append(@, rwb.initialDelay * Pow2(rwb.i))]
            ELSE [rwb EXCEPT !.pc = "loop", !.lastError = rwb.invoked, !.i = @ + 1]
  /\ UNCHANGED <<clientVars, networkRetries, calls, market, co2, vm, deb>>

\* the setTimeout of the catch block resolves: i++
RwbWake ==
  /\ rwb.pc = "sleeping"
  /\ rwb' = [rwb EXCEPT !.pc = "loop", !.i = @ + 1]
  /\ UNCHANGED <<clientVars, networkRetries, calls, market, co2, vm, deb>>

NextRwb ==
  \/ RwbInvoke
  \/ RwbThrowLast
  \/ RwbFnResolves
  \/ RwbFnRejects
  \/ RwbWake

SpecRwb == InitRwb /\ [][NextRwb]_vars

(***************************************************************************)
(* utils.calculateCO2(energyKwh, source).  Factors are in thousandths of a *)
(* kg per kWh and results in thousandths of a kg, so the products of the   *)
(* whole-number energies used here are exact.                              *)
(***************************************************************************)
\* the energyKwh argument
EnergyValues == {0, 1, 2, 10, 100}

\* the source argument
SourceValues ==
  {"solar", "Solar", "SOLAR", "wind", "hydro", "grid", "GRID", "battery", "Battery",
   "other", "nuclear", "", "constructor"}

\* String.prototype.toLowerCase on the source values
toLowerCase(str) ==
  CASE str \in {"Solar", "SOLAR"} -> "solar"
    [] str = "GRID" -> "grid"
    [] str = "Battery" -> "battery"
    [] OTHER -> str

\* emissionFactors[key]: an own property, a property inherited from
\* Object.prototype (a function), or undefined
emissionFactors(key) ==
  CASE key = "solar" -> [type |-> "number", milli |-> 50]
    [] key = "wind" -> [type |-> "number", milli |-> 20]
    [] key = "hydro" -> [type |-> "number", milli |-> 24]
    [] key = "grid" -> [type |-> "number", milli |-> 500]
    [] key = "battery" -> [type |-> "number", milli |-> 0]
    [] key = "other" -> [type |-> "number", milli |-> 500]
    [] key = "constructor" -> [type |-> "function", milli |-> 0]
    [] OTHER -> [type |-> "undefined", milli |-> 0]

\* emissionFactors[source.toLowerCase()] || 0.5, then energyKwh * factor
calculateCO2(energyKwh, source) ==
  LET found == emissionFactors(toLowerCase(source))
      truthy == found.type = "function" \/ (found.type = "number" /\ found.milli # 0)
      factor == IF truthy THEN found ELSE [type |-> "number", milli |-> 500]
  IN IF factor.type = "number"
     THEN [nan |-> FALSE, milli |-> energyKwh * factor.milli]
     ELSE [nan |-> TRUE, milli |-> 0]

InitCo2 ==
  /\ IdleClient
  /\ market = MarketIdle
  /\ rwb = RwbIdle
  /\ \E e \in EnergyValues, src \in SourceValues :
       co2 = [pc |-> "called", energyKwh |-> e, source |-> src, nan |-> FALSE, milli |-> 0]
  /\ vm = VmIdle
  /\ deb = DebIdle

\* calculateCO2 returns
Co2Return ==
  /\ co2.pc = "called"
  /\ LET r == calculateCO2(co2.energyKwh, co2.source)
     IN co2' = [co2 EXCEPT !.pc = "returned", !.nan = r.nan, !.milli = r.milli]
  /\ UNCHANGED <<clientVars, networkRetries, calls, market, rwb, vm, deb>>

NextCo2 == Co2Return

SpecCo2 == InitCo2 /\ [][NextCo2]_vars

(***************************************************************************)
(* utils.validateMeasurement(measurement).  A field value is a record of   *)
(* its kind t (undefined, null, string, number, NaN) and its content: s    *)
(* for a string, n for a number.                                           *)
(***************************************************************************)
JsUndefined == [t |-> "undefined", s |-> "", n |-> 0]
JsNull == [t |-> "null", s |-> "", n |-> 0]
JsNaN == [t |-> "NaN", s |-> "", n |-> 0]
JsString(str) == [t |-> "string", s |-> str, n |-> 0]
JsNumber(num) == [t |-> "number", s |-> "", n |-> num]

\* typeof x
typeof(x) ==
  CASE x.t = "NaN" -> "number"
    [] x.t = "null" -> "object"
    [] OTHER -> x.t

\* !x
Falsy(x) ==
  \/ x.t \in {"undefined", "null", "NaN"}
  \/ x.t = "string" /\ x.s = ""
  \/ x.t = "number" /\ x.n = 0

\* x < 0 for a value whose typeof is number: false for NaN
LessThanZero(x) == x.t = "number" /\ x.n < 0

\* the timestamp strings new Date() can parse
ParseableTimestamps == {"2024-01-15T10:30:00Z"}

\* isValidTimestamp(timestamp): !isNaN(new Date(timestamp).getTime())
isValidTimestamp(x) == x.t = "string" /\ x.s \in ParseableTimestamps

\* the measurement objects handed to validateMeasurement
Measurements ==
  [deviceId : {JsUndefined, JsString(""), JsString("meter-001")},
   timestamp : {JsUndefined, JsString(""), JsString("yesterday"),
                JsString("2024-01-15T10:30:00Z")},
   energy : {JsUndefined, JsString("5"), JsNaN, JsNumber(-5), JsNumber(0), JsNumber(5)},
   power : {JsUndefined, JsNull, JsString("5"), JsNaN, JsNumber(-1), JsNumber(0),
            JsNumber(5)},
   source : {JsUndefined, JsString(""), JsString("solar")}]

\* validateMeasurement not called
VmNoResult == [valid |-> FALSE, errors |-> <<>>]

validateMeasurement(m) ==
  LET e1 == IF Falsy(m.deviceId) THEN <<"deviceId is required">> ELSE <<>>
      e2 == IF Falsy(m.timestamp) \/ ~isValidTimestamp(m.timestamp)
            THEN <<"valid timestamp is required">> ELSE <<>>
      e3 == IF typeof(m.energy) # "number" \/ LessThanZero(m.energy)
            THEN <<"energy must be a non-negative number">> ELSE <<>>
      e4 == IF m.power.t # "undefined"
               /\ (typeof(m.power) # "number" \/ LessThanZero(m.power))
            THEN <<"power must be a non-negative number">> ELSE <<>>
      e5 == IF Falsy(m.source) THEN <<"source is required">> ELSE <<>>
      errors == e1 \o e2 \o e3 \o e4 \o e5
  IN [valid |-> Len(errors) = 0, errors |-> errors]

InitVm ==
  /\ IdleClient
  /\ market = MarketIdle
  /\ rwb = RwbIdle
  /\ co2 = Co2Idle
  /\ \E m \in Measurements : vm = [pc |-> "called", m |-> m, result |-> VmNoResult]
  /\ deb = DebIdle

\* validateMeasurement returns
VmReturn ==
  /\ vm.pc = "called"
  /\ vm' = [vm EXCEPT !.pc = "returned", !.result = validateMeasurement(vm.m)]
  /\ UNCHANGED <<clientVars, networkRetries, calls, market, rwb, co2, deb>>

NextVm == VmReturn

SpecVm == InitVm /\ [][NextVm]_vars

(***************************************************************************)
(* utils.debounce(fn, delay): the debounced function, the timers it sets   *)
(* and a clock in ms.  A timer that is due fires before the clock moves    *)
(* on; a call made at the very time a timer is due may come before or      *)
(* after the timer fires.                                                  *)
(***************************************************************************)
\* the delay argument, in ms
DelayArgs == {0, 1, 2}

\* the argument lists the debounced function is called with
DebArgs == {"a", "b"}

\* debounce(fn, delay): timeoutId is not assigned yet (0)
debounce(delay) ==
  [pc |-> "made", delay |-> delay, now |-> 0, timeoutId |-> 0, nextTimer |-> 1,
   timers |-> {}, calls |-> <<>>, invocations |-> <<>>]

\* clearTimeout that clears nothing
clearTimeoutNoOp(tms, id) == tms

\* clearTimeout(timeoutId)
clearTimeout(tms, id) == {tm \in tms : tm.id # id}

InitDeb ==
  /\ IdleClient
  /\ market = MarketIdle
  /\ rwb = RwbIdle
  /\ co2 = Co2Idle
  /\ vm = VmIdle
  /\ \E d \in DelayArgs : deb = debounce(d)

\* the debounced function is called: clearTimeout, then setTimeout
DebCall(args) ==
  /\ deb.pc = "made"
  /\ Len(deb.calls) < MaxDebCalls
  /\ deb' = [deb EXCEPT
       !.calls = Append(@, [t |-> deb.now, args |-> args]),
       !.timers = clearTimeout(deb.timers, deb.timeoutId)
                    \cup {[id |-> deb.nextTimer, due |-> deb.now + deb.delay, args |-> args]},
       !.timeoutId = deb.nextTimer,
       !.nextTimer = @ + 1]
  /\ UNCHANGED <<clientVars, networkRetries, calls, market, rwb, co2, vm>>

\* a timer that is due fires: () => fn(...args)
DebFire(tm) ==
  /\ tm \in deb.timers
  /\ tm.due <= deb.now
  /\ deb' = [deb EXCEPT
       !.timers = @ \ {tm},
       !.invocations = Append(@, [t |-> deb.now, args |-> tm.args,
                                  after |-> Len(deb.calls)])]
  /\ UNCHANGED <<clientVars, networkRetries, calls, market, rwb, co2, vm>>

\* one ms passes with no timer due
DebTick ==
  /\ deb.pc = "made"
  /\ deb.now < MaxTime
  /\ \A tm \in deb.timers : tm.due > deb.now
  /\ deb' = [deb EXCEPT !.now = @ + 1]
  /\ UNCHANGED <<clientVars, networkRetries, calls, market, rwb, co2, vm>>

NextDeb ==
  \/ \E args \in DebArgs : DebCall(args)
  \/ \E tm \in deb.timers : DebFire(tm)
  \/ DebTick

SpecDeb == InitDeb /\ [][NextDeb]_vars

(***************************************************************************)
(* Derived notions used by the properties.                                 *)
(***************************************************************************)
\* the state of the event channel, read off the sockets
ChannelState ==
  IF \E s \in 1..Len(sockets) : sockets[s] = "open" THEN "connected"
  ELSE IF \E s \in 1..Len(sockets) : sockets[s] = "connecting" THEN "connecting"
  ELSE "disconnected"

\* a socket whose close event has not been delivered yet
LiveSocket(s) == sockets[s] \in {"connecting", "open", "closing", "failed"}

\* the steps that dispatch to the registry
Dispatching(op) == op \in {"emit", "onmessage", "onerror"}

\* a frame that cannot be decoded or decodes without a type
Malformed(raw) == raw.shape \in {"garbage", "null"} \/ raw.type = Undefined

\* network.retries as documented: the value given, 3 when omitted
ConfiguredRetries == IF networkRetries = Omitted THEN 3 ELSE networkRetries

Min(a, b) == IF a <= b THEN a ELSE b

\* a settled call all of whose attempts failed with status >= 500 or 429
FailedOnlyWith5xxOr429(c) ==
  /\ calls[c].phase \in {"resolved", "rejected"}
  /\ calls[c].seen # {}
  /\ calls[c].seen \subseteq {st \in FailStatuses : st >= 500 \/ st = 429}

\* the attempts of a settled call that failed before its first success
FailedAttempts(c) ==
  IF calls[c].phase = "resolved" THEN calls[c].attempts - 1 ELSE calls[c].attempts

RECURSIVE RemoveFirst(_, _)
\* a listener sequence without the first registration of fn
RemoveFirst(regs, fn) ==
  IF regs = <<>> THEN <<>>
  ELSE IF Head(regs).fn = fn THEN Tail(regs)
  ELSE <<Head(regs)>> \o RemoveFirst(Tail(regs), fn)

(***************************************************************************)
(* The properties.                                                         *)
(***************************************************************************)

\* C1: once disconnect() has been called, no reconnect timer is pending and no
\* socket is connecting or open, whatever state the channel was in at the call.
C1_NoChannelAfterDisconnect ==
  disconnects > 0 =>
    /\ timers = <<>>
    /\ \A s \in 1..Len(sockets) : sockets[s] \notin {"connecting", "open"}

\* C2: a call rejected because every attempt failed retryably has made exactly
\* network.retries + 1 attempts (3 + 1 when network.retries is omitted).
C2_AttemptsAreRetriesPlusOne ==
  \A c \in Calls :
    (/\ calls[c].phase = "rejected"
     /\ calls[c].settled.kind = "error"
     /\ \A st \in calls[c].seen : shouldRetry([status |-> st, hasConfig |-> TRUE]))
    => calls[c].attempts = ConfiguredRetries + 1

\* C3: a settled call whose attempts failed with status >= 500 or 429 has made
\* exactly min(network.retries, failed attempts before the first success)
\* retries, and waited 2^n seconds before retry n.
C3_RetryCountAndBackoff ==
  \A c \in Calls :
    FailedOnlyWith5xxOr429(c) =>
      /\ Len(calls[c].waits) = Min(ConfiguredRetries, FailedAttempts(c))
      /\ calls[c].attempts = Len(calls[c].waits) + 1
      /\ \A n \in 1..Len(calls[c].waits) : calls[c].waits[n] = Pow2(n) * 1000

\* C4: a call whose first attempt fails with a 4xx status other than 429 is
\* rejected with that failure after one attempt and no backoff wait.
C4_ClientErrorNotRetried ==
  \A c \in Calls :
    (/\ calls[c].failure.kind = "error"
     /\ calls[c].failure.attempt = 1
     /\ calls[c].failure.status \in 400..499 \ {429})
    => /\ calls[c].phase = "rejected"
       /\ calls[c].attempts = 1
       /\ calls[c].waits = <<>>
       /\ calls[c].settled = calls[c].failure

C4_Witness ==
  \E c \in Calls :
    /\ calls[c].phase = "rejected"
    /\ calls[c].settled = [kind |-> "error", attempt |-> 1, status |-> 404]

\* C5: a dispatch invokes every handle registered for its kind, also the ones
\* after a handle that throws, and raises nothing to the caller of the dispatch.
C5_ThrowingHandleIsolated ==
  (Dispatching(last.op) /\ last.kind # Undefined) =>
    /\ Len(last.invoked) = Len(listeners[last.kind])
    /\ ~last.raised

\* C6: with enableRealtime the channel is connecting once the client is
\* constructed, a successful handshake makes it connected, a close makes it
\* disconnected and schedules exactly one reconnect timer of 5000 ms, and the
\* timer firing makes the channel connecting again.
C6_ConnectCloseReconnect ==
  [][/\ (last.op = "constructor" /\ enableRealtime /\ ~wsCtorThrows)
          => (ChannelState = "connecting" /\ timers = <<>>)
     /\ (last'.op = "onopen" /\ ChannelState = "connecting")
          => ChannelState' = "connected"
     /\ (last'.op = "onclose")
          => (ChannelState' = "disconnected" /\ timers' = Append(timers, 5000))
     /\ (last'.op = "timer" /\ ~wsCtorThrows)
          => (ChannelState' = "connecting" /\ timers' = Tail(timers))
    ]_vars

C6_Witness ==
  /\ enableRealtime
  /\ disconnects = 0
  /\ last.op = "timer"
  /\ sockets = <<"closed", "connecting">>
  /\ timers = <<>>

\* C7: as long as disconnect() has not been called, a channel that was enabled
\* either has a socket whose close is still to come or a reconnect timer pending.
C7_ReconnectAlwaysPending ==
  (enableRealtime /\ disconnects = 0) =>
    \/ \E s \in 1..Len(sockets) : LiveSocket(s)
    \/ timers # <<>>

\* C8: off(kind, fn) removes the first registration of fn for that kind and
\* nothing else.
C8_OffRemovesFirstOnly ==
  [][\A k \in SubKinds, fn \in Handles :
       Off(k, fn) =>
         listeners' = [listeners EXCEPT ![k] = RemoveFirst(@, fn)]
    ]_vars

\* C9: after disconnect() no registration made before the call is left for any
\* kind, a later dispatch invokes none of them, and a dispatch that finds no
\* handle raises nothing.
C9_RegistryClearedByDisconnect ==
  disconnects > 0 =>
    /\ \A k \in Kinds : \A i \in 1..Len(listeners[k]) : listeners[k][i].id >= discMark
    /\ Dispatching(last.op) =>
         /\ \A i \in 1..Len(last.invoked) : last.invoked[i].id >= discMark
         /\ (last.invoked = <<>> => ~last.raised /\ ~last.escaped)

C9_Witness ==
  /\ disconnects > 0
  /\ discMark > 1
  /\ last.op = "emit"
  /\ last.invoked = <<>>

\* C10: a frame that cannot be decoded or has no type leaves the sockets, the
\* reconnect timers and the registry as they were and invokes no handle.
C10_MalformedFrameDropped ==
  [][(last'.op = "onmessage" /\ Malformed(last'.frame)) =>
       /\ sockets' = sockets
       /\ wsConnection' = wsConnection
       /\ timers' = timers
       /\ listeners' = listeners
       /\ last'.invoked = <<>>
       /\ ~last'.escaped
    ]_vars

C10_Witness ==
  /\ last.op = "onmessage"
  /\ Malformed(last.frame)
  /\ listeners["offer"] # <<>>
  /\ listeners["error"] # <<>>

\* C11: a frame of a routed type T is dispatched to kind T alone, with the
\* frame's payload, to the handles of T from the first on; a frame of any other
\* type, 'error' included, is not dispatched and changes nothing of the channel.
C11_FrameRouting ==
  [][(last'.op = "onmessage" /\ last'.frame.shape = "object"
        /\ last'.frame.type # Undefined) =>
       IF last'.frame.type \in RecognizedTypes
       THEN /\ last'.kind = last'.frame.type
            /\ listeners' = listeners
            /\ (listeners[last'.frame.type] # <<>> => last'.invoked # <<>>)
            /\ Len(last'.invoked) <= Len(listeners[last'.frame.type])
            /\ \A i \in 1..Len(last'.invoked) :
                 /\ last'.invoked[i].arg = last'.frame.payload
                 /\ last'.invoked[i].id = listeners[last'.frame.type][i].id
                 /\ last'.invoked[i].fn = listeners[last'.frame.type][i].fn
       ELSE /\ last'.kind = Undefined
            /\ last'.invoked = <<>>
            /\ sockets' = sockets
            /\ wsConnection' = wsConnection
            /\ timers' = timers
            /\ listeners' = listeners
    ]_vars

C11_Witness ==
  /\ last.op = "onmessage"
  /\ last.frame.type = "offer"
  /\ last.frame.payload = "p2"
  /\ last.invoked # <<>>
  /\ listeners["error"] # <<>>

\* C12: a dispatch invokes every registration of its kind, in subscription
\* order, once each, all with the same payload.
C12_DispatchInOrderOncePerRegistration ==
  (Dispatching(last.op) /\ last.kind # Undefined) =>
    /\ Len(last.invoked) = Len(listeners[last.kind])
    /\ \A i \in 1..Len(last.invoked) :
         /\ i <= Len(listeners[last.kind])
         /\ last.invoked[i].id = listeners[last.kind][i].id
         /\ last.invoked[i].fn = listeners[last.kind][i].fn
         /\ last.invoked[i].arg = last.invoked[1].arg

\* C13: a call rejected with its retry budget used up is rejected with the
\* failure of its last attempt, also when that failure carries no configuration.
C13_LastFailureSurfaced ==
  \A c \in Calls :
    (calls[c].phase = "rejected" /\ calls[c].retry = Retries(networkRetries))
    => calls[c].settled = calls[c].failure

\* C14: a settled call whose attempts all ended without a response has made
\* min(network.retries, failed attempts) retries with waits of 2^n seconds, and
\* if rejected it is rejected with the last of these failures.
C14_NoResponseRetriedLike5xx ==
  \A c \in Calls :
    (/\ calls[c].phase \in {"resolved", "rejected"}
     /\ calls[c].seen = {NoResponse}
     /\ calls[c].settled.kind # "TypeError")
    => /\ Len(calls[c].waits) = Min(ConfiguredRetries, FailedAttempts(c))
       /\ calls[c].attempts = Len(calls[c].waits) + 1
       /\ \A n \in 1..Len(calls[c].waits) : calls[c].waits[n] = Pow2(n) * 1000
       /\ (calls[c].phase = "rejected" => calls[c].settled = calls[c].failure)

\* C15: with network.retries = 2, a call whose attempts are answered 500 is not
\* rejected before its third attempt, waits 2000 ms and then 4000 ms, and when
\* the third attempt is answered 200 it resolves with that attempt's response.
C15_TwoFailuresThenSuccess ==
  \A c \in Calls :
    (/\ networkRetries = 2
     /\ calls[c].seen = {500}
     /\ calls[c].failure.attempt <= 2)
    => /\ calls[c].phase \in {"backoff", "inflight", "resolved"}
       /\ calls[c].waits = SubSeq(<<2000, 4000>>, 1, calls[c].failure.attempt)
       /\ (calls[c].phase = "backoff" => calls[c].attempts = calls[c].failure.attempt)
       /\ (calls[c].phase # "backoff" => calls[c].attempts = calls[c].failure.attempt + 1)
       /\ (calls[c].phase = "resolved" =>
             calls[c].settled = [kind |-> "response", attempt |-> calls[c].attempts,
                                 status |-> 200])

C15_Witness ==
  \E c \in Calls :
    /\ networkRetries = 2
    /\ calls[c].seen = {500}
    /\ calls[c].phase = "resolved"
    /\ calls[c].attempts = 3
    /\ calls[c].waits = <<2000, 4000>>
    /\ calls[c].settled = [kind |-> "response", attempt |-> 3, status |-> 200]

\* the retries a call has used are its own: one wait per retry, never more
\* than the budget, and the whole budget when it is rejected for a retryable
\* failure
OwnBudget(c) ==
  /\ Len(calls[c].waits) <= Retries(networkRetries)
  /\ calls[c].phase \in {"backoff", "inflight", "resolved", "rejected"}
       => calls[c].attempts - 1 <= Len(calls[c].waits)
  /\ calls[c].phase \in {"inflight", "resolved", "rejected"}
       => calls[c].attempts = Len(calls[c].waits) + 1
  /\ calls[c].phase = "backoff" => calls[c].attempts = Len(calls[c].waits)
  /\ (/\ calls[c].phase = "rejected"
      /\ calls[c].settled.kind = "error"
      /\ shouldRetry(calls[c].settled))
     => Len(calls[c].waits) = Retries(networkRetries)

\* C16: the retry counter is per call: a step of one call leaves every other
\* call as it was, and each call, whatever the other does, retries up to the
\* full budget of `retries` before it is rejected for a retryable failure.
C16_RetryCounterPerCall ==
  [][/\ \A c \in Calls :
          calls'[c] # calls[c] => \A d \in Calls \ {c} : calls'[d] = calls[d]
     /\ \A c \in Calls : OwnBudget(c)'
    ]_vars

C16_Witness ==
  /\ calls["c1"].phase = "rejected"
  /\ calls["c1"].settled.kind = "error"
  /\ calls["c1"].settled.status = 500
  /\ Len(calls["c1"].waits) = Retries(networkRetries)
  /\ calls["c2"].phase = "backoff"
  /\ Len(calls["c2"].waits) = 1

\* C17: the sockets that are connecting or open and the pending reconnect
\* timers are together never more than one.
C17_AtMostOneConnection ==
  Cardinality({s \in 1..Len(sockets) : sockets[s] \in {"connecting", "open"}})
    + Len(timers) <= 1

C17_Witness ==
  /\ sockets = <<"closed", "open">>
  /\ timers = <<>>

\* C18: a client constructed without enableRealtime never has a socket nor a
\* reconnect timer, also after disconnect().
C18_NoChannelWithoutRealtime ==
  ~enableRealtime => (sockets = <<>> /\ timers = <<>> /\ wsConnection = 0)

C18_Witness ==
  /\ ~enableRealtime
  /\ disconnects > 0
  /\ last.op = "emit"

\* C19: a socket error and the close of an open socket are each dispatched to
\* the 'error' kind, and the socket of a dispatched error still gets its close.
C19_ChannelFailureSurfaced ==
  [][\A s \in 1..Len(sockets) :
       /\ (sockets[s] # "failed" /\ sockets'[s] = "failed") =>
            (last'.op = "onerror" /\ last'.kind = "error" /\ timers' = timers)
       /\ (sockets[s] = "open" /\ sockets'[s] = "closed") =>
            (last'.kind = "error" /\ timers' = Append(timers, ReconnectDelay))
    ]_vars

\* C20: off(kind, fn) for a handle that has no registration under the kind
\* raises nothing and leaves the registrations of every kind as they were.
C20_OffUnregisteredIsNoOp ==
  [][\A k \in SubKinds, fn \in Handles :
       (/\ Off(k, fn)
        /\ \A i \in 1..Len(listeners[k]) : listeners[k][i].fn # fn)
       => /\ listeners' = listeners
          /\ ~last'.raised
          /\ ~last'.escaped
    ]_vars

C20_Witness ==
  /\ last.op = "off"
  /\ last.kind = "offer"
  /\ Len(listeners["offer"]) = 1
  /\ Len(listeners["error"]) = 1
  /\ nextId = 3
  /\ disconnects = 0

\* C21: disconnect() is idempotent: every call leaves no connection held and an
\* empty registry and raises nothing, and a call that directly follows another
\* one changes neither the sockets, the timers nor the registry.
C21_DisconnectIdempotent ==
  [][disconnects' = disconnects + 1 =>
       /\ wsConnection' = 0
       /\ listeners' = NoListeners
       /\ ~last'.raised
       /\ ~last'.escaped
       /\ last.op = "disconnect" =>
            /\ sockets' = sockets
            /\ wsConnection' = wsConnection
            /\ listeners' = listeners
            /\ timers' = timers
    ]_vars

C21_Witness ==
  /\ disconnects = 2
  /\ last.op = "disconnect"
  /\ sockets = <<"closing">>
  /\ nextId > 1

\* C22: once unsubscribeFromOffers(cb) has followed subscribeToOffers(cb, filters),
\* an 'offer' dispatch does not invoke cb.
C22_UnsubscribedCallbackNotInvoked ==
  (last.op = "onmessage" /\ last.kind = "offer") =>
    \A cb \in MarketCallbacks :
      market.state[cb] = "unsubscribed" =>
        cb \notin CallbacksInvoked(last.invoked, market.closures)

\* C23: when fn fails on every invocation, retryWithBackoff has invoked it
\* maxRetries + 1 times when it rejects, and rejects with the error of the last
\* invocation.
C23_MaxRetriesPlusOneInvocations ==
  rwb.pc = "rejected" =>
    /\ rwb.invoked = rwb.maxRetries + 1
    /\ rwb.settled = [kind |-> "error", value |-> rwb.invoked]

\* the emission factor the documentation lists for a source, in thousandths of
\* a kg per kWh, and 0.5 for a source that is not listed
ListedFactor(src) ==
  CASE src = "solar" -> 50
    [] src = "wind" -> 20
    [] src = "hydro" -> 24
    [] src = "grid" -> 500
    [] src = "battery" -> 0
    [] src = "other" -> 500
    [] OTHER -> 500

\* C24: calculateCO2(energyKwh, source) is energyKwh times the factor listed for
\* the source compared case-insensitively (battery 0), and energyKwh times 0.5
\* for a source that is not listed.
C24_Co2IsEnergyTimesListedFactor ==
  co2.pc = "returned" =>
    /\ ~co2.nan
    /\ co2.milli = co2.energyKwh * ListedFactor(toLowerCase(co2.source))

\* a field that is there: a non-empty string
Present(x) == x.t = "string" /\ x.s # ""

\* a number that is >= 0, which NaN is not
NumericNonNegative(x) == x.t = "number" /\ x.n >= 0

\* C25: valid is true exactly when errors is empty, which is exactly when the
\* measurement has a deviceId, a parseable timestamp, a numeric energy >= 0, a
\* power that is absent or numeric >= 0, and a source; a measurement without
\* deviceId and timestamp and with negative energy is invalid with an error.
C25_ValidExactlyWhenWellFormed ==
  vm.pc = "returned" =>
    /\ vm.result.valid <=> vm.result.errors = <<>>
    /\ vm.result.errors = <<>> <=>
         /\ Present(vm.m.deviceId)
         /\ Present(vm.m.timestamp) /\ vm.m.timestamp.s \in ParseableTimestamps
         /\ NumericNonNegative(vm.m.energy)
         /\ vm.m.power.t = "undefined" \/ NumericNonNegative(vm.m.power)
         /\ Present(vm.m.source)
    /\ (/\ vm.m.deviceId.t = "undefined"
        /\ vm.m.timestamp.t = "undefined"
        /\ LessThanZero(vm.m.energy))
       => (~vm.result.valid /\ Len(vm.result.errors) > 0)

\* a 4xx status other than 429
ClientError(status) == status >= 400 /\ status < 500 /\ status # 429

\* C26: when a call that has already been retried fails with a 4xx other than
\* 429, it is rejected with that failure at once: no wait is scheduled and no
\* further attempt is made, whatever is left of the retry budget.
C26_ClientErrorAfterRetrySurfaced ==
  \A c \in Calls :
    (/\ calls[c].failure.kind = "error"
     /\ ClientError(calls[c].failure.status)
     /\ Len(calls[c].waits) >= 1)
    => /\ calls[c].phase = "rejected"
       /\ calls[c].settled = calls[c].failure
       /\ calls[c].attempts = calls[c].failure.attempt
       /\ calls[c].attempts = Len(calls[c].waits) + 1

C26_Witness ==
  \E c \in Calls :
    /\ calls[c].phase = "rejected"
    /\ calls[c].settled = [kind |-> "error", attempt |-> 2, status |-> 404]
    /\ calls[c].seen = {503, 404}
    /\ calls[c].waits = <<2000>>
    /\ Len(calls[c].waits) < Retries(networkRetries)

\* C27: a call makes at most retries + 1 attempts, retries being the configured
\* network.retries (3 when omitted).
C27_AtMostRetriesPlusOneAttempts ==
  \A c \in Calls : calls[c].attempts <= ConfiguredRetries + 1

\* C28: no open, error, close or reconnect step removes or reorders a
\* registration, and a recognized frame that arrives on a replacement
\* connection is dispatched to the registered handles of its kind, in their
\* order and with its payload.
C28_RegistrySurvivesReconnect ==
  [][/\ last'.op \in {"onopen", "onerror", "onclose", "timer"} => listeners' = listeners
     /\ (/\ last'.op = "onmessage"
         /\ last'.frame.type \in RecognizedTypes
         /\ Len(sockets) >= 2
         /\ sockets[1] = "closed")
        => /\ listeners' = listeners
           /\ last'.kind = last'.frame.type
           /\ listeners[last'.kind] # <<>> => last'.invoked # <<>>
           /\ Len(last'.invoked) <= Len(listeners[last'.kind])
           /\ \A i \in 1..Len(last'.invoked) :
                /\ last'.invoked[i].id = listeners[last'.kind][i].id
                /\ last'.invoked[i].fn = listeners[last'.kind][i].fn
                /\ last'.invoked[i].arg = last'.frame.payload
           /\ \A i \in 1..Len(listeners[last'.kind]) :
                (\A j \in 1..(i - 1) : ~Throws(listeners[last'.kind][j].fn))
                  => i <= Len(last'.invoked)
    ]_vars

C28_Witness ==
  /\ sockets = <<"closed", "open">>
  /\ last.op = "onmessage"
  /\ last.kind = "offer"
  /\ Len(last.invoked) = 2
  /\ Len(listeners["offer"]) = 2
  /\ disconnects = 0

\* C29: a handle that throws while a recognized frame is dispatched leaves the
\* socket open with no reconnect scheduled and nothing thrown out of onmessage,
\* and the frame after it is handled like any other.
C29_ThrowingHandleKeepsConnection ==
  [][(last'.op = "onmessage" /\ last'.raised) =>
       /\ sockets' = sockets
       /\ wsConnection' = wsConnection
       /\ timers' = timers
       /\ listeners' = listeners
       /\ ~last'.escaped
       /\ \E s \in 1..Len(sockets') : sockets'[s] \in {"open", "closing"}
       /\ (last.op = "onmessage" /\ last.raised /\ last'.frame = last.frame) =>
            last'.invoked = last.invoked
    ]_vars

C29_Witness ==
  /\ last.op = "onmessage"
  /\ last.kind = "offer"
  /\ last.raised
  /\ sockets = <<"open">>
  /\ timers = <<>>

\* call k of the debounced function is followed by another call less than
\* delay later
FollowedWithinDelay(k) ==
  k < Len(deb.calls) /\ deb.calls[k + 1].t - deb.calls[k].t < deb.delay

\* the invocations of fn made for call k, the latest call before them
InvocationsAfter(k) ==
  {j \in 1..Len(deb.invocations) : deb.invocations[j].after = k}

\* fn is invoked only for a call made before, delay after that call and with
\* its arguments, at most once per call and never for a call that is followed
\* by another within delay; once more than delay has passed since a call that
\* ends a burst, fn has been invoked for it
DebouncedInvocations ==
  /\ \A j \in 1..Len(deb.invocations) :
       LET v == deb.invocations[j]
       IN /\ v.after >= 1
          /\ v.t = deb.calls[v.after].t + deb.delay
          /\ v.args = deb.calls[v.after].args
  /\ \A k \in 1..Len(deb.calls) :
       /\ Cardinality(InvocationsAfter(k)) <= 1
       /\ FollowedWithinDelay(k) => InvocationsAfter(k) = {}
       /\ (/\ deb.now > deb.calls[k].t + deb.delay
           /\ k < Len(deb.calls) => deb.calls[k + 1].t > deb.calls[k].t + deb.delay)
          => InvocationsAfter(k) # {}

\* C30: a call of the debounced function never invokes fn itself; in a burst of
\* calls each less than delay after the previous one, fn is invoked exactly
\* once, delay after the last call and with the arguments of the last call.
C30_DebounceTrailingOnce ==
  [][/\ deb'.calls # deb.calls => deb'.invocations = deb.invocations
     /\ DebouncedInvocations'
    ]_vars

C30_Witness ==
  /\ Len(deb.calls) = 2
  /\ deb.delay = 2
  /\ deb.calls[1].args = "a"
  /\ deb.calls[2].args = "b"
  /\ deb.calls[2].t = deb.calls[1].t + 1
  /\ deb.invocations = <<[t |-> deb.calls[2].t + 2, args |-> "b", after |-> 2]>>

====
